---- MODULE Spec2Model ----
(***************************************************************************)
(* usrnet, examples/udp_echo_client.py: the UDP echo probe.                *)
(*                                                                         *)
(* main() creates one UDP socket, binds it to BIND_ADDR and then loops     *)
(* for ever: draw a 128 byte message, send it to ECHO_ADDR, receive        *)
(* datagrams until one comes from ECHO_ADDR, assert that it equals the     *)
(* message, print, sleep one second.                                       *)
(*                                                                         *)
(* The program counter pc holds the source line that runs next (L15 is     *)
(* line 15 of the file).  An uncaught exception leaves pc on the line that *)
(* raised it and records its type in exc; nothing runs after that.  The    *)
(* network and the clock are the environment: inflight holds the datagrams *)
(* handed to sendto, rcvq the datagrams queued on the bound socket.        *)
(***************************************************************************)
EXTENDS Integers, Sequences, FiniteSets, TLC

\* ------------------------------------------------------------------ bounds
\* Iterations of the `while True` loop the model follows.
MaxSends == 2
\* Datagrams the socket's receive queue holds at once.
MaxQueue == 1
\* Random streams the message is drawn from, numbered 0..MaxStream.
MaxStream == 1

\* ------------------------------------------------------- program constants
MSG_LEN == 128
BYTE_LO == 0
BYTE_HI == 255
RECV_BUFSIZE == 128
SLEEP_SECS == 1

BIND_ADDR == <<"10.0.0.1", 2048>>
ECHO_ADDR == <<"10.0.0.103", 4096>>

\* Python's None, and the '' that line 24 stores in message_.
None == <<>>
EmptyStr == <<>>

\* Senders other than the echo server: its IP with another port, its port on
\* another IP.
Strangers == {<<"10.0.0.103", 4097>>, <<"10.0.0.104", 4096>>}

VARIABLES
    pc,         \* the line of main() that runs next
    exc,        \* "None", or the type of the uncaught exception
    sock,       \* the socket object, by number (0 before line 15)
    bound,      \* None, or the address the socket is bound to
    message,    \* the list of ints drawn on line 21
    message_,   \* the bytes recvfrom returned last ('' after line 24)
    src_addr,   \* the sender recvfrom returned last (None after line 24)
    stdout,     \* the lines printed, by kind
    wake,       \* seconds the running sleep has still to last
    inflight,   \* datagrams sent by the probe, on their way to ECHO_ADDR
    rcvq,       \* datagrams queued on the probe's socket
    since,      \* seconds since the last send, counted up to SLEEP_SECS
                \* (-1 before the first send)
    hist        \* what has happened so far, read by the properties only:
                \*   nsock, nbind   sockets created, binds done
                \*   ngen, nsent    messages drawn, datagrams sent
                \*   naccepted      times the loop of line 26 was left
                \*   ndone          iterations completed (sleeps returned)
                \*   nrecv          recvfrom returns since the last send
                \*                  (counted up to 2)
                \*   nremote        of these, from ECHO_ADDR
                \*   rawLen         length of the datagram received last,
                \*                  before recvfrom cut it
                \*   lastSent       the bytes handed to sendto last
                \*   socks          the sockets used by sendto and recvfrom

vars == <<pc, exc, sock, bound, message, message_, src_addr, stdout, wake,
          inflight, rcvq, since, hist>>

progVars == <<pc, exc, sock, bound, message, message_, src_addr, stdout, wake>>

\* ---------------------------------------------------------- pure functions
Min(S) == CHOOSE x \in S : \A y \in S : x <= y
Max(S) == CHOOSE x \in S : \A y \in S : x >= y

\* randint with its upper end one too far (a <= N <= b + 1).
randint_OffByOne(a, b) == a..(b + 1)

\* random.randint(a, b): some N with a <= N <= b.
randint(a, b) == a..b

\* The i-th draw of random stream s.  Stream 0 alternates the largest and the
\* smallest value randint can return, stream 1 the smallest and the largest,
\* stream 2 the second largest and the second smallest, and so on.
RandLo == Min(randint(BYTE_LO, BYTE_HI))
RandHi == Max(randint(BYTE_LO, BYTE_HI))
Draw(s, i) ==
    IF (s + i) % 2 = 0 THEN RandLo + (s \div 2) ELSE RandHi - (s \div 2)

\* [random.randint(0, 255) for _ in range(128)] under stream s.
NewMessage(s) == [i \in 1..MSG_LEN |-> Draw(s, i)]

\* bytes(list): the same values as bytes; ValueError unless each is in
\* range(256).
ValueError == <<"ValueError">>
bytes(m) ==
    IF \A i \in 1..Len(m) : m[i] \in 0..255 THEN m ELSE ValueError

\* recvfrom reading one byte less than asked for.
Truncate_OffByOne(data, bufsize) ==
    IF Len(data) <= bufsize - 1 THEN data ELSE SubSeq(data, 1, bufsize - 1)

\* recvfrom handing over the whole datagram, whatever its length.
Truncate_NoLimit(data, bufsize) == data

\* recvfrom(bufsize) on a datagram socket: the first bufsize bytes of the
\* datagram; the rest of it is discarded.
Truncate(data, bufsize) ==
    IF Len(data) <= bufsize THEN data ELSE SubSeq(data, 1, bufsize)

\* The loop condition comparing the IP address only.
KeepWaiting_IpOnly(addr) == addr = None \/ addr[1] # ECHO_ADDR[1]

\* The loop condition satisfied by a datagram of any sender.
KeepWaiting_AnySender(addr) == addr = None

\* The loop condition of line 26.
KeepWaiting(addr) == addr # ECHO_ADDR

\* The condition of the assert on line 29.
EchoMatches(got, msg) == got = bytes(msg)

\* The outcomes of a system call: it returns, or (when faults are on) raises.
Outcomes(faults) == IF faults THEN {"ok", "OSError"} ELSE {"ok"}

Running == exc = "None"

\* ------------------------------------------------------------------- Init
Init ==
    /\ pc = "L15"
    /\ exc = "None"
    /\ sock = 0
    /\ bound = None
    /\ message = <<>>
    /\ message_ = EmptyStr
    /\ src_addr = None
    /\ stdout = <<>>
    /\ wake = 0
    /\ inflight = <<>>
    /\ rcvq = <<>>
    /\ since = -1
    /\ hist = [nsock |-> 0, nbind |-> 0, ngen |-> 0, nsent |-> 0,
               naccepted |-> 0, ndone |-> 0, nrecv |-> 0, nremote |-> 0,
               rawLen |-> 0, lastSent |-> <<>>, socks |-> {}]

\* ------------------------------------------------------------- the program
\* line 15: sock = socket.socket(AF_INET, SOCK_DGRAM)
Socket(faults) ==
    /\ Running /\ pc = "L15"
    /\ \E r \in Outcomes(faults) :
         IF r = "ok"
         THEN /\ sock' = hist.nsock + 1
              /\ hist' = [hist EXCEPT !.nsock = @ + 1]
              /\ pc' = "L16"
              /\ exc' = exc
         ELSE /\ exc' = r
              /\ UNCHANGED <<sock, hist, pc>>
    /\ UNCHANGED <<bound, message, message_, src_addr, stdout, wake,
                   inflight, rcvq, since>>

\* bind with its failure swallowed: the program goes on unbound.
Bind_Swallow(faults) ==
    /\ Running /\ pc = "L16"
    /\ \E r \in Outcomes(faults) :
         IF r = "ok"
         THEN /\ bound' = BIND_ADDR
              /\ hist' = [hist EXCEPT !.nbind = @ + 1]
         ELSE UNCHANGED <<bound, hist>>
    /\ pc' = "L18"
    /\ UNCHANGED <<exc, sock, message, message_, src_addr, stdout, wake,
                   inflight, rcvq, since>>

\* line 16: sock.bind(BIND_ADDR)
Bind(faults) ==
    /\ Running /\ pc = "L16"
    /\ \E r \in Outcomes(faults) :
         IF r = "ok"
         THEN /\ bound' = BIND_ADDR
              /\ hist' = [hist EXCEPT !.nbind = @ + 1]
              /\ pc' = "L18"
              /\ exc' = exc
         ELSE /\ exc' = r
              /\ UNCHANGED <<bound, hist, pc>>
    /\ UNCHANGED <<sock, message, message_, src_addr, stdout, wake,
                   inflight, rcvq, since>>

\* line 18: print('Binded to: %s:%d' % BIND_ADDR)
PrintBinded ==
    /\ Running /\ pc = "L18"
    /\ stdout' = Append(stdout, "Binded to")
    /\ pc' = "L21"
    /\ UNCHANGED <<exc, sock, bound, message, message_, src_addr, wake,
                   inflight, rcvq, since, hist>>

\* line 21: message = [random.randint(0, 255) for _ in range(128)]
Generate ==
    /\ Running /\ pc = "L21"
    /\ hist.ngen < MaxSends
    /\ \E s \in 0..MaxStream : message' = NewMessage(s)
    /\ hist' = [hist EXCEPT !.ngen = @ + 1]
    /\ pc' = "L22"
    /\ UNCHANGED <<exc, sock, bound, message_, src_addr, stdout, wake,
                   inflight, rcvq, since>>

\* line 22: print('Sending %s...' % message)
PrintSending ==
    /\ Running /\ pc = "L22"
    /\ stdout' = Append(stdout, "Sending")
    /\ pc' = "L23"
    /\ UNCHANGED <<exc, sock, bound, message, message_, src_addr, wake,
                   inflight, rcvq, since, hist>>

\* line 23: sock.sendto(bytes(message), ECHO_ADDR)
SendTo(faults) ==
    /\ Running /\ pc = "L23"
    /\ IF bytes(message) = ValueError
       THEN /\ exc' = "ValueError"
            /\ UNCHANGED <<pc, inflight, hist, since>>
       ELSE \E r \in Outcomes(faults) :
              IF r = "ok"
              THEN /\ inflight' = Append(inflight,
                          [src |-> bound, dst |-> ECHO_ADDR,
                           data |-> bytes(message)])
                   /\ hist' = [hist EXCEPT !.nsent = @ + 1,
                                           !.lastSent = bytes(message),
                                           !.nrecv = 0,
                                           !.nremote = 0,
                                           !.rawLen = 0,
                                           !.socks = @ \cup {sock}]
                   /\ since' = 0
                   /\ pc' = "L24"
                   /\ exc' = exc
              ELSE /\ exc' = r
                   /\ UNCHANGED <<pc, inflight, hist, since>>
    /\ UNCHANGED <<sock, bound, message, message_, src_addr, stdout, wake,
                   rcvq>>

\* line 24 resetting message_ only, not src_addr.
ResetReply_KeepAddr ==
    /\ Running /\ pc = "L24"
    /\ message_' = EmptyStr
    /\ pc' = "L26"
    /\ UNCHANGED <<exc, sock, bound, message, src_addr, stdout, wake,
                   inflight, rcvq, since, hist>>

\* line 24: message_, src_addr = '', None
ResetReply ==
    /\ Running /\ pc = "L24"
    /\ message_' = EmptyStr
    /\ src_addr' = None
    /\ pc' = "L26"
    /\ UNCHANGED <<exc, sock, bound, message, stdout, wake, inflight, rcvq,
                   since, hist>>

\* The loop also skipping a datagram from ECHO_ADDR that is not the message.
WhileTest_SkipMismatch ==
    /\ Running /\ pc = "L26"
    /\ IF src_addr # ECHO_ADDR \/ message_ # bytes(message)
       THEN /\ pc' = "L27"
            /\ hist' = hist
       ELSE /\ pc' = "L29"
            /\ hist' = [hist EXCEPT !.naccepted = @ + 1]
    /\ UNCHANGED <<exc, sock, bound, message, message_, src_addr, stdout,
                   wake, inflight, rcvq, since>>

\* line 26: while src_addr != ECHO_ADDR:
WhileTest ==
    /\ Running /\ pc = "L26"
    /\ IF KeepWaiting(src_addr)
       THEN /\ pc' = "L27"
            /\ hist' = hist
       ELSE /\ pc' = "L29"
            /\ hist' = [hist EXCEPT !.naccepted = @ + 1]
    /\ UNCHANGED <<exc, sock, bound, message, message_, src_addr, stdout,
                   wake, inflight, rcvq, since>>

\* line 27: message_, src_addr = sock.recvfrom(128)
\* The call blocks while the socket's queue is empty.
RecvFrom(faults) ==
    /\ Running /\ pc = "L27"
    /\ \E r \in Outcomes(faults) :
         IF r = "ok"
         THEN /\ rcvq # <<>>
              /\ LET d == Head(rcvq)
                     remote == d.src = ECHO_ADDR
                 IN  /\ message_' = Truncate(d.data, RECV_BUFSIZE)
                     /\ src_addr' = d.src
                     /\ hist' = [hist EXCEPT
                          !.nrecv = IF @ < 2 THEN @ + 1 ELSE @,
                          !.nremote = IF remote THEN @ + 1 ELSE @,
                          !.rawLen = Len(d.data),
                          !.socks = @ \cup {sock}]
              /\ rcvq' = Tail(rcvq)
              /\ pc' = "L26"
              /\ exc' = exc
         ELSE /\ exc' = r
              /\ UNCHANGED <<pc, message_, src_addr, rcvq, hist>>
    /\ UNCHANGED <<sock, bound, message, stdout, wake, inflight, since>>

\* line 29: assert message_ == bytes(message)
AssertEcho ==
    /\ Running /\ pc = "L29"
    /\ IF EchoMatches(message_, message)
       THEN /\ pc' = "L30"
            /\ exc' = exc
       ELSE /\ exc' = "AssertionError"
            /\ pc' = pc
    /\ UNCHANGED <<sock, bound, message, message_, src_addr, stdout, wake,
                   inflight, rcvq, since, hist>>

\* line 30: print('Got echo!')
PrintGotEcho ==
    /\ Running /\ pc = "L30"
    /\ stdout' = Append(stdout, "Got echo!")
    /\ pc' = "L32"
    /\ UNCHANGED <<exc, sock, bound, message, message_, src_addr, wake,
                   inflight, rcvq, since, hist>>

\* sleep returning at once.
SleepCall_NoPause ==
    /\ Running /\ pc = "L32"
    /\ wake' = 0
    /\ pc' = "L32s"
    /\ UNCHANGED <<exc, sock, bound, message, message_, src_addr, stdout,
                   inflight, rcvq, since, hist>>

\* line 32: time.sleep(1), the call: the thread is suspended for at least
\* one second.
SleepCall ==
    /\ Running /\ pc = "L32"
    /\ wake' = SLEEP_SECS
    /\ pc' = "L32s"
    /\ UNCHANGED <<exc, sock, bound, message, message_, src_addr, stdout,
                   inflight, rcvq, since, hist>>

\* line 32: time.sleep(1), the return, and the jump back to line 20.
SleepReturn ==
    /\ Running /\ pc = "L32s"
    /\ wake = 0
    /\ pc' = "L21"
    /\ hist' = [hist EXCEPT !.ndone = @ + 1]
    /\ UNCHANGED <<exc, sock, bound, message, message_, src_addr, stdout,
                   wake, inflight, rcvq, since>>

\* One step of main().
Main(faults) ==
    \/ Socket(faults)
    \/ Bind(faults)
    \/ PrintBinded
    \/ Generate
    \/ PrintSending
    \/ SendTo(faults)
    \/ ResetReply
    \/ WhileTest
    \/ RecvFrom(faults)
    \/ AssertEcho
    \/ PrintGotEcho
    \/ SleepCall
    \/ SleepReturn

\* --------------------------------------------------------- the environment
\* One bit of byte b flipped (the lowest).
FlipBit(b) == IF b % 2 = 0 THEN b + 1 ELSE b - 1

\* What the remote endpoint may answer to a datagram carrying data.
Reply(kind, data) ==
    CASE kind = "echo"      -> data
      [] kind = "flip"      -> [data EXCEPT ![Len(data)] = FlipBit(@)]
      [] kind = "short"     -> SubSeq(data, 1, Len(data) - 1)
      [] kind = "empty"     -> <<>>
      [] kind = "long"      -> Append(data, 0)

ReplyKinds == {"echo", "flip", "short", "empty", "long"}

\* The endpoint at ECHO_ADDR answers the oldest datagram of the probe it has
\* not dealt with.  With keep the datagram stays in flight and is answered
\* again later (a duplicated or extra answer).
EchoServer(kinds, keeps) ==
    /\ Running /\ inflight # <<>>
    /\ Len(rcvq) < MaxQueue
    /\ \E kind \in kinds, keep \in keeps :
         /\ rcvq' = Append(rcvq, [src |-> ECHO_ADDR,
                                  data |-> Reply(kind, Head(inflight).data)])
         /\ inflight' = IF keep THEN inflight ELSE Tail(inflight)
    /\ UNCHANGED <<progVars, since, hist>>

\* Another endpoint sends a datagram to the probe's socket: the bytes of the
\* message just drawn, or none.
Stranger ==
    /\ Running /\ bound # None
    /\ Len(rcvq) < MaxQueue
    /\ \E a \in Strangers, data \in {message, <<>>} :
         rcvq' = Append(rcvq, [src |-> a, data |-> data])
    /\ UNCHANGED <<progVars, inflight, since, hist>>

\* A second passes: the stopwatch of the last send advances (it stops at
\* SLEEP_SECS) and a running sleep has one second less to last.
Tick ==
    /\ Running
    /\ (since >= 0 /\ since < SLEEP_SECS) \/ (pc = "L32s" /\ wake > 0)
    /\ since' = IF since >= 0 /\ since < SLEEP_SECS THEN since + 1 ELSE since
    /\ wake' = IF pc = "L32s" /\ wake > 0 THEN wake - 1 ELSE wake
    /\ UNCHANGED <<pc, exc, sock, bound, message, message_, src_addr, stdout,
                   inflight, rcvq, hist>>

\* ------------------------------------------------------ the specifications
\* The probe on a network where the remote endpoint may answer anything, any
\* number of times, and where system calls may fail.
Next ==
    \/ Main(TRUE)
    \/ EchoServer(ReplyKinds, BOOLEAN)
    \/ Stranger
    \/ Tick

Spec == Init /\ [][Next]_vars

\* The probe against a perfect echo server: every datagram is answered once,
\* with the same bytes, from ECHO_ADDR; no system call fails.
NextEcho ==
    \/ Main(FALSE)
    \/ EchoServer({"echo"}, {FALSE})
    \/ Stranger
    \/ Tick

SpecEcho == Init /\ [][NextEcho]_vars

\* ----------------------------------------------------------- the properties
\* The lines of an iteration after the send and before the loop of line 26
\* is left, and the lines after it is left.
WaitLines == {"L24", "L26", "L27"}
PastLines == {"L29", "L30", "L32", "L32s"}

\* The 'Got echo!' lines printed so far.
GotEchoes == Cardinality({i \in 1..Len(stdout) : stdout[i] = "Got echo!"})

\* A step of main() (not of the network or the clock).
ProgStep == pc' # pc \/ exc' # exc

\* What a datagram from a sender other than ECHO_ADDR may change: the two
\* variables recvfrom assigns, and nothing else of the program.
OnlyReplyVarsChange ==
    /\ exc' = exc /\ stdout' = stdout /\ inflight' = inflight
    /\ message' = message /\ wake' = wake
    /\ hist'.nsent = hist.nsent /\ hist'.naccepted = hist.naccepted
    /\ hist'.ngen = hist.ngen

\* C1: a datagram whose sender is not ECHO_ADDR never ends the wait: past the
\* loop of line 26 the sender is ECHO_ADDR; receiving a datagram from another
\* sender leads back to the loop test and the loop test leads back to
\* recvfrom, with no send, no comparison, no output and no exception.
C1_Filtering ==
    /\ [](pc \in PastLines => src_addr = ECHO_ADDR)
    /\ [][(pc = "L27" /\ ProgStep /\ exc' = "None" /\ src_addr' # ECHO_ADDR)
            => (pc' = "L26" /\ OnlyReplyVarsChange)]_vars
    /\ [][(pc = "L26" /\ ProgStep /\ src_addr # ECHO_ADDR)
            => (pc' = "L27" /\ OnlyReplyVarsChange
                /\ message_' = message_ /\ src_addr' = src_addr)]_vars

\* The probe is back in recvfrom after discarding a datagram of another
\* sender that carried the very bytes of the message.
C1_Witness ==
    /\ pc = "L27" /\ Running
    /\ src_addr \in Strangers
    /\ message_ = bytes(message)

\* C2: a datagram accepted that differs from the message sent, in a byte or
\* in its length, is fatal: an iteration gets past the assert only when the
\* datagram accepted is the message, byte for byte.
C2_MismatchFatal ==
    pc \in {"L30", "L32", "L32s"} =>
        (message_ = bytes(message) /\ hist.rawLen = Len(bytes(message)))

\* C3: against a perfect echo server nothing fails, the datagram accepted is
\* the message sent, byte for byte, and after N completed iterations N
\* datagrams have been sent and N accepted.
C3_RoundTrip ==
    /\ exc = "None"
    /\ (pc \in PastLines =>
            (message_ = bytes(message) /\ hist.rawLen = Len(bytes(message))))
    /\ hist.ndone <= hist.naccepted
    /\ hist.naccepted <= hist.nsent
    /\ hist.nsent <= hist.ndone + 1
    /\ (pc \in {"L21", "L22", "L23"} =>
            (hist.nsent = hist.ndone /\ hist.naccepted = hist.ndone))

\* The second iteration got past the assert after a datagram of another
\* sender was received and discarded in it.
C3_Witness ==
    /\ pc = "L30"
    /\ hist.ndone = 1
    /\ hist.nrecv = 2

\* C4: the message has 128 values, each in 0..255; one message is drawn for
\* each send; the datagram sent carries the bytes of the message drawn in
\* the iteration, and the message is still that one when the reply is
\* compared.
C4_Payload ==
    /\ (hist.ngen > 0 =>
            (/\ Len(message) = 128
             /\ \A i \in 1..Len(message) : message[i] >= 0 /\ message[i] <= 255))
    /\ hist.ngen = hist.nsent + (IF pc \in {"L22", "L23"} THEN 1 ELSE 0)
    /\ (hist.nsent > 0 => Len(hist.lastSent) = 128)
    /\ (pc \in WaitLines \cup PastLines =>
            (/\ Len(hist.lastSent) = Len(message)
             /\ \A i \in 1..Len(message) : hist.lastSent[i] = message[i]))
    /\ \A k \in 1..Len(inflight) :
            /\ Len(inflight[k].data) = 128
            /\ inflight[k].dst = ECHO_ADDR

\* A datagram has been sent that holds both a 0 and a 255.
C4_Witness ==
    /\ hist.nsent > 0
    /\ \E i, j \in 1..Len(hist.lastSent) :
            hist.lastSent[i] = 0 /\ hist.lastSent[j] = 255

\* C5: while no datagram from ECHO_ADDR has been received since the send,
\* and no system call fails, the probe stays in the wait whatever else
\* arrives and however much time passes: no send, no output, no pause, no
\* termination.
C5_UnboundedWait ==
    [][(/\ pc \in WaitLines /\ Running
        /\ hist.nremote = 0 /\ hist'.nremote = 0
        /\ exc' # "OSError")
        => (/\ pc' \in WaitLines
            /\ exc' = "None"
            /\ hist'.nsent = hist.nsent
            /\ hist'.ngen = hist.ngen
            /\ stdout' = stdout
            /\ wake' = wake)]_vars

\* A second after the send the probe is blocked in recvfrom on an empty
\* queue, having received datagrams of other senders only.
C5_Witness ==
    /\ pc = "L27" /\ Running
    /\ rcvq = <<>>
    /\ hist.nrecv = 2 /\ hist.nremote = 0
    /\ since = SLEEP_SECS

\* C6: between two sends lie, in this order, the acceptance of a datagram
\* from ECHO_ADDR, the assert passed ('Got echo!' printed) and the pause; a
\* send that is not the first comes at least SLEEP_SECS after the one before
\* it, which has been answered.
C6_Pacing ==
    /\ [](/\ hist.ndone <= GotEchoes
          /\ GotEchoes <= hist.naccepted
          /\ hist.naccepted <= hist.nsent
          /\ hist.nsent <= hist.ndone + 1)
    /\ [][(hist'.nsent # hist.nsent /\ hist.nsent > 0)
            => (/\ since >= SLEEP_SECS
                /\ hist.naccepted = hist.nsent
                /\ GotEchoes = hist.nsent
                /\ hist.ndone = hist.nsent)]_vars

\* The second send has just been made.
C6_Witness ==
    /\ pc = "L24"
    /\ hist.nsent = 2
    /\ since = 0

\* C7: an exception ends the program: the call that raised it has done
\* nothing and nothing runs after it.  A failure of socket() or bind() comes
\* before any message is drawn.  One socket is made and bound once, before
\* the first send, and every sendto and recvfrom uses it.
C7_FailuresTerminal ==
    /\ [](/\ hist.nsock <= 1 /\ hist.nbind <= 1
          /\ (pc \notin {"L15", "L16"} =>
                 (sock = 1 /\ bound = BIND_ADDR /\ hist.nbind = 1))
          /\ (pc \in {"L15", "L16"} =>
                 (hist.ngen = 0 /\ hist.nsent = 0 /\ message = <<>>
                  /\ inflight = <<>>))
          /\ hist.socks \subseteq {1}
          /\ (exc = "OSError" => pc \in {"L15", "L16", "L23", "L27"}))
    /\ [][exc # "None"
            => (progVars' = progVars /\ hist' = hist /\ inflight' = inflight)]_vars
    /\ [][(exc = "None" /\ exc' # "None")
            => (/\ pc' = pc /\ hist' = hist /\ stdout' = stdout
                /\ inflight' = inflight /\ rcvq' = rcvq
                /\ message_' = message_ /\ src_addr' = src_addr
                /\ sock' = sock /\ bound' = bound /\ wake' = wake)]_vars
    /\ [][(sock # 0 => sock' = sock) /\ (bound # None => bound' = bound)]_vars

\* The send of the second iteration has failed.
C7_Witness ==
    /\ exc = "OSError"
    /\ pc = "L23"
    /\ hist.nsent = 1

\* C8: the datagrams sent are the datagrams accepted, or one more; one more
\* exactly from the send until the loop of line 26 is left; and the loop is
\* never left without a recvfrom since the send.
C8_OneOutstanding ==
    /\ hist.nsent - hist.naccepted \in {0, 1}
    /\ (hist.nsent - hist.naccepted = 1 <=> pc \in WaitLines)
    /\ (pc \in PastLines => hist.nrecv >= 1)
    /\ (pc = "L26" /\ hist.nrecv = 0 => src_addr = None)

\* The second iteration has left the loop of line 26.
C8_Witness ==
    /\ pc = "L29"
    /\ hist.naccepted = 2
    /\ hist.nrecv >= 1

\* C9: the first datagram received from ECHO_ADDR after a send is the one
\* accepted, whatever it holds: a second one is never received in the same
\* iteration, and what is compared is that first one: the iteration goes on
\* when it equals the message and dies on the assert when it does not.
C9_FirstRemoteAccepted ==
    /\ hist.nremote <= 1
    /\ (pc \in {"L24", "L27"} => hist.nremote = 0)
    /\ (pc = "L26" => (hist.nremote = 1 <=> src_addr = ECHO_ADDR))
    /\ (pc \in PastLines => hist.nremote = 1)
    /\ (pc = "L29" /\ exc = "AssertionError" => message_ # bytes(message))
    /\ (pc \in {"L30", "L32", "L32s"} => message_ = bytes(message))
    /\ (exc = "AssertionError" => pc = "L29")

\* The second iteration died on the assert: it accepted the 128 bytes of
\* another message while its own datagram is still on its way to ECHO_ADDR.
C9_Witness ==
    /\ exc = "AssertionError"
    /\ hist.nsent = 2
    /\ \E s \in 0..MaxStream : message_ = NewMessage(s) /\ message_ # message
    /\ inflight # <<>>
    /\ inflight[Len(inflight)].data = bytes(message)

\* C10: recvfrom hands over the first 128 bytes of a datagram at most, and
\* the assert compares those: a longer datagram from ECHO_ADDR whose first
\* 128 bytes are the message passes, a shorter one always fails.
C10_Truncation ==
    /\ [](Len(message_) <= 128)
    /\ [][(pc = "L27" /\ pc' = "L26")
            => LET d == Head(rcvq).data
               IN  /\ Len(message_') = (IF Len(d) < 128 THEN Len(d) ELSE 128)
                   /\ \A i \in 1..Len(message_') : message_'[i] = d[i]
                   /\ hist'.rawLen = Len(d)]_vars
    /\ [][(pc = "L29" /\ ProgStep)
            => IF /\ hist.rawLen >= 128
                  /\ \A i \in 1..128 : message_[i] = message[i]
               THEN pc' = "L30" /\ exc' = "None"
               ELSE pc' = "L29" /\ exc' = "AssertionError"]_vars

\* A datagram longer than 128 bytes has passed the assert.
C10_Witness ==
    /\ pc = "L30"
    /\ hist.rawLen > 128

====
